---- MODULE Spec2Model ----
(***************************************************************************)
(* TradingBot (src/trading_bot.py): the run loop, one cycle at a time, and *)
(* the exchange calls it makes.                                            *)
(*                                                                         *)
(* Units.  Time is counted in ticks (the clock is read by datetime.now()   *)
(* and advanced by time.sleep).  Prices and indicator values are integers; *)
(* the ATR values are even, so that atr * 1.5 and atr * 2.5 are exact.     *)
(* Order quantities are counted in thousandths (0.2 is 200).               *)
(*                                                                         *)
(* A Python dict is a function from its keys; None and the empty dict are  *)
(* both the empty function: the code only ever tests them for truth.       *)
(***************************************************************************)
EXTENDS Integers, Sequences, FiniteSets, TLC

VARIABLES
    pc,               \* position of the process in __init__ / run
    exc,              \* the exception that ended the process, "none" while it runs
    clock,            \* the wall clock (datetime.now())
    now,              \* run: local `now` of the current cycle
    last_close_time,  \* self.last_close_time
    position,         \* self.position
    df,               \* run: local `df` of the current cycle (last row of the frame)
    balance,          \* run: local `balance` of the current cycle
    sent,             \* the orders handed to send_request in the current cycle
    opening,          \* the order whose acknowledgment was stored in self.position
    risk_perc,        \* self.risk_perc, in hundredths
    amount,           \* run: local `amount` of the current cycle, a fraction <<n, d>>
    calls,            \* the send_request calls of the current cycle (of __init__ at first)
    leverage          \* the answer set_leverage got, "unset" before

vars == <<pc, exc, clock, now, last_close_time, position, df, balance, sent, opening,
          risk_perc, amount, calls, leverage>>

-----------------------------------------------------------------------------
(* Bounds of the model *)

MaxTime == 3          \* the clock stops being advanced past this tick
pause == 2            \* self.pause, in ticks
frequency == 1        \* self.frequency, in ticks

-----------------------------------------------------------------------------
(* Python values *)

None == <<>>

Truthy(d) == DOMAIN d # {}

Has(d, k) == k \in DOMAIN d

abs(x) == IF x < 0 THEN -x ELSE x

NoBalance == [fetched |-> FALSE, value |-> 0]

\* The outcome of a call: the value it returns, or the exception it raises.
Return(v) == [raised |-> "none", value |-> v]

Raise(e) == [raised |-> e, value |-> None]

-----------------------------------------------------------------------------
(* send_request: what the exchange (or the transport) answers.             *)

Outcomes == {"network", "http", "decode", "app", "ok"}

\* send_request returns None on a network error, a status other than 200 and
\* an undecodable body, and the decoded envelope otherwise.
\* What the try block of lines 49-65 raises: requests raises on a transport
\* failure, response.json() on a body that is not JSON.
raised_in_try(outcome) ==
    IF outcome = "network" THEN "ConnectionError"
    ELSE IF outcome = "decode" THEN "JSONDecodeError"
    ELSE "none"

\* The handlers without the one for undecodable bodies.
caught_transport_only(e) == e = "ConnectionError"

\* lines 67 and 71: the except clauses (ConnectionError is a RequestException)
caught(e) == e \in {"ConnectionError", "JSONDecodeError"}

\* lines 37, 38, 46: the keys send_request adds to params, the signature last
request_params == {"api_key", "timestamp", "sign"}

\* line 56: print(... Params: {params}), reached once requests.get/post returned
log_records(outcome) ==
    IF outcome = "network" THEN <<>> ELSE <<request_params>>

\* The call: the exception it raises to its caller ("none" when it returns),
\* the value it returns (None on a network error, a status other than 200 and
\* an undecodable body; the decoded envelope otherwise), the records it logged.
send_request(outcome) ==
    LET e == raised_in_try(outcome) IN
    [outcome |-> outcome,
     raised  |-> IF e # "none" /\ ~caught(e) THEN e ELSE "none",
     value   |-> IF e # "none" \/ outcome = "http" THEN None
                 ELSE IF outcome = "app" THEN [retCode |-> 10001]
                 ELSE [retCode |-> 0],
     log     |-> log_records(outcome)]

\* A call as recorded in `calls`.
Call(endpoint, outcome) == [endpoint |-> endpoint] @@ send_request(outcome)


-----------------------------------------------------------------------------
(* fetch_data.  The frame is represented by its last row, the only row run  *)
(* and its helpers read (df[...].iloc[-1]); the bars, and so the indicator  *)
(* values of that row, are whatever the exchange returned.                  *)

Snapshots ==
    [EMA200 : {100, 101}, EMA90 : {100, 101}, ATR : {0, 2, 20},
     close : {97, 100, 105}, RSI12 : {30, 70}, BB_lower : {98}, BB_upper : {102},
     MACD : {-1, 1}, Signal : {0}]

\* The shape of result.list in an answer with retCode 0.
BarPayloads == {"good", "short_row", "bad_number", "empty_list", "no_result"}

\* fetch_data without the retCode test of lines 91-93: an error envelope has
\* no result.
fetch_data_unchecked(outcome, payload, snapshot) ==
    LET call == send_request(outcome)
        data == call.value IN
    IF call.raised # "none" THEN Raise(call.raised)
    ELSE IF data = None THEN Raise("TypeError")
    ELSE IF data.retCode # 0 \/ payload = "no_result" THEN Raise("KeyError")
    ELSE IF payload = "empty_list" THEN Raise("IndexError")
    ELSE IF payload \in {"short_row", "bad_number"} THEN Return(None)
    ELSE Return(snapshot)

fetch_data(outcome, payload, snapshot) ==
    LET call == send_request(outcome)
        data == call.value IN
    IF call.raised # "none" THEN Raise(call.raised)
    ELSE IF data = None THEN Raise("TypeError")            \* line 91: None['retCode']
    ELSE IF data.retCode # 0 THEN Return(None)             \* lines 91-93
    ELSE IF payload = "no_result" THEN Raise("KeyError")   \* line 97: data['result']
    ELSE IF payload = "empty_list" THEN Raise("IndexError") \* line 97: list[0]
    ELSE IF payload \in {"short_row", "bad_number"} THEN Return(None) \* lines 108-110
    ELSE Return(snapshot)

-----------------------------------------------------------------------------
(* get_balance *)

BalancePayloads == {"usdt", "no_usdt", "missing_key", "empty_list"}

Balances == {-1000, 0, 1, 1000}

get_balance(outcome, payload, walletBalance) ==
    LET call == send_request(outcome)
        balance_data == call.value IN
    IF call.raised # "none" THEN Raise(call.raised)
    ELSE IF balance_data = None THEN Return(0)             \* lines 157-159
    ELSE IF balance_data.retCode # 0 THEN Return(0)        \* lines 172-174
    ELSE IF payload = "empty_list" THEN Raise("IndexError") \* line 164: list[0]
    ELSE IF payload = "missing_key" THEN Return(0)         \* lines 175-178
    ELSE IF payload = "no_usdt" THEN Return(0)             \* lines 170-171
    ELSE Return(walletBalance)                             \* lines 166-169

-----------------------------------------------------------------------------
(* determine_position, check_entry_conditions, calculate_volatility_based_risk *)

determine_position(d) ==
    IF d.EMA200 > d.EMA90 THEN "short"
    ELSE IF d.EMA200 < d.EMA90 THEN "long"
    ELSE "None"

check_entry_conditions(d, bias) ==
    IF bias = "long"
    THEN d.RSI12 < 40 \/ d.close < d.BB_lower \/ d.MACD < d.Signal
    ELSE IF bias = "short"
    THEN d.RSI12 > 60 \/ d.close > d.BB_upper \/ d.MACD > d.Signal
    ELSE FALSE

\* <<stop_loss, take_profit>> = <<atr * 1.5, atr * 2.5>>
calculate_volatility_based_risk(d) ==
    <<(d.ATR * 3) \div 2, (d.ATR * 5) \div 2>>

\* line 262: abs(EMA200 - EMA90) < ATR * 0.1
low_volatility(d) == abs(d.EMA200 - d.EMA90) * 10 < d.ATR

-----------------------------------------------------------------------------
(* place_order *)

\* The `result` object of an acknowledged order: the exchange chooses it.
OrderResults ==
    { None,
      [orderId |-> 1],
      [orderId |-> 1, side |-> "sell", amount |-> 200],
      [orderId |-> 1, side |-> "buy", amount |-> 100] }

\* line 226: the side put on the wire
wire_side(side) == IF side = "buy" THEN "Buy" ELSE "Sell"

\* The call's outcome, with the order it handed to send_request.
place_order(side, qty, outcome, result) ==
    LET call == send_request(outcome)
        response == call.value
        request  == [side |-> wire_side(side), qty |-> qty, outcome |-> outcome]
        ret == IF call.raised # "none"
               THEN Raise(call.raised)
               ELSE IF Truthy(response) /\ response.retCode = 0
               THEN Return(result)                          \* lines 237-239
               ELSE IF response = None
               THEN Raise("AttributeError")                 \* line 241: None.get
               ELSE Return(None)                            \* lines 241-242
    IN [raised |-> ret.raised, value |-> ret.value, request |-> request]

-----------------------------------------------------------------------------
(* __init__ and set_leverage *)

EntryQty == 200       \* line 284: place_order(position, 0.2)

MIN_ORDER_SIZE == 1   \* line 247: 0.001

\* The values of the constructor's risk_perc, in hundredths: the default -0.2
\* of line 10, and 0.02.
RiskFractions == {-20, 2}

Init ==
    /\ pc = "init"
    /\ exc = "none"
    /\ clock = 0
    /\ now = 0
    /\ last_close_time = 0 - pause          \* line 20
    /\ position = None                      \* line 21
    /\ df = None
    /\ balance = NoBalance
    /\ sent = <<>>
    /\ opening = None
    /\ risk_perc \in RiskFractions         \* line 19
    /\ amount = None
    /\ calls = <<>>
    /\ leverage = "unset"

\* Line 25, set_leverage: a missing response raises at line 144 and the
\* constructor does not return; any decoded answer lets startup go on.
set_leverage ==
    /\ pc = "init"
    /\ \E outcome \in Outcomes :
         LET call == send_request(outcome)
             response == call.value IN
         /\ calls' = Append(calls, Call("set-leverage", outcome))
         /\ leverage' = outcome
         /\ IF call.raised # "none"
            THEN pc' = "aborted" /\ exc' = call.raised
            ELSE IF response = None
            THEN pc' = "aborted" /\ exc' = "TypeError"      \* line 144
            ELSE pc' = "top" /\ exc' = exc                   \* lines 144-147
    /\ UNCHANGED <<clock, now, last_close_time, position, df, balance, sent, opening,
                   risk_perc, amount>>

-----------------------------------------------------------------------------
(* run: one loop iteration, in steps *)

\* The cooldown check with the boundary tick counted as inside the window.
in_cooldown_inclusive(t, lct) == t - lct <= pause

\* line 251
in_cooldown(t, lct) == t - lct < pause

\* lines 250-254: read the clock, check the cooldown.
cooldown_check ==
    /\ pc = "top"
    /\ now' = clock
    /\ df' = None /\ balance' = NoBalance /\ sent' = <<>>
    /\ amount' = None /\ calls' = <<>>
    /\ pc' = IF in_cooldown(clock, last_close_time) THEN "sleep" ELSE "fetch"
    /\ UNCHANGED <<exc, clock, last_close_time, position, opening, risk_perc, leverage>>

\* lines 256-258: `continue` at line 258 goes back to the top of the loop.
fetch ==
    /\ pc = "fetch"
    /\ \E outcome \in Outcomes, payload \in BarPayloads, snapshot \in Snapshots :
         LET r == fetch_data(outcome, payload, snapshot) IN
         /\ calls' = Append(calls, Call("kline", outcome))
         /\ IF r.raised # "none"
            THEN pc' = "crashed" /\ exc' = r.raised /\ df' = df
            ELSE IF r.value = None
            THEN pc' = "top" /\ exc' = exc /\ df' = df
            ELSE pc' = "gate" /\ exc' = exc /\ df' = r.value
    /\ UNCHANGED <<clock, now, last_close_time, position, balance, sent, opening,
                   risk_perc, amount, leverage>>

\* lines 260-265
volatility_gate ==
    /\ pc = "gate"
    /\ pc' = IF low_volatility(df) THEN "sleep" ELSE "entry"
    /\ UNCHANGED <<exc, clock, now, last_close_time, position, df, balance, sent, opening,
                   risk_perc, amount, calls, leverage>>

\* The entry guard without the test of the position slot.
may_enter_while_open(bias, pos) == bias # "None"

\* line 267
may_enter(bias, pos) == bias # "None" /\ ~Truthy(pos)

\* line 270
no_balance(b) == b = 0

\* lines 288-291
opened(order, d) ==
    LET risk == calculate_volatility_based_risk(d) IN
    [k \in DOMAIN order \cup {"stop_loss", "take_profit", "entry_price"} |->
        IF k = "stop_loss" THEN risk[1]
        ELSE IF k = "take_profit" THEN risk[2]
        ELSE IF k = "entry_price" THEN d.close
        ELSE order[k]]

\* The sizing without the absolute value.
size_order_signed(b, risk, price) ==
    LET raw == <<b * risk * 10, price>> IN
    IF raw[1] < MIN_ORDER_SIZE * raw[2] THEN <<MIN_ORDER_SIZE, 1>> ELSE raw

\* lines 276-281: abs(balance * risk_perc / close), raised to MIN_ORDER_SIZE.
\* The result is the fraction <<n, d>>, in thousandths (risk is in hundredths).
size_order(b, risk, price) ==
    LET raw == <<abs(b * risk * 10), abs(price)>> IN
    IF raw[1] < MIN_ORDER_SIZE * raw[2] THEN <<MIN_ORDER_SIZE, 1>> ELSE raw

\* lines 267-293
entry ==
    /\ pc = "entry"
    /\ LET bias == determine_position(df) IN
       IF may_enter(bias, position) /\ check_entry_conditions(df, bias)
       THEN \E bo \in Outcomes, bp \in BalancePayloads, wb \in Balances :
              LET b == get_balance(bo, bp, wb) IN
              IF b.raised # "none"
              THEN /\ pc' = "crashed" /\ exc' = b.raised
                   /\ calls' = Append(calls, Call("wallet-balance", bo))
                   /\ UNCHANGED <<position, balance, sent, opening, amount>>
              ELSE IF no_balance(b.value)
              THEN /\ pc' = "sleep" /\ exc' = exc
                   /\ balance' = [fetched |-> TRUE, value |-> b.value]
                   /\ calls' = Append(calls, Call("wallet-balance", bo))
                   /\ UNCHANGED <<position, sent, opening, amount>>
              ELSE \E oo \in Outcomes, res \in OrderResults :
                     LET o == place_order(bias, EntryQty, oo, res) IN
                     /\ balance' = [fetched |-> TRUE, value |-> b.value]
                     /\ amount' = size_order(b.value, risk_perc, df.close)
                     /\ sent' = Append(sent, [purpose |-> "entry"] @@ o.request)
                     /\ calls' = calls \o <<Call("wallet-balance", bo), Call("order", oo)>>
                     /\ IF o.raised # "none"
                        THEN /\ pc' = "crashed" /\ exc' = o.raised
                             /\ UNCHANGED <<position, opening>>
                        ELSE /\ pc' = "monitor" /\ exc' = exc
                             /\ IF Truthy(o.value)                 \* line 287
                                THEN /\ position' = opened(o.value, df)
                                     /\ opening' = o.request
                                ELSE UNCHANGED <<position, opening>>
       ELSE /\ pc' = "monitor"
            /\ UNCHANGED <<exc, position, balance, sent, opening, amount, calls>>
    /\ UNCHANGED <<clock, now, last_close_time, df, risk_perc, leverage>>

\* The exit test with the two comparisons turned around.
exit_triggered_reversed(current_price, pos) ==
    \/ current_price >= pos.entry_price - pos.stop_loss
    \/ current_price <= pos.entry_price + pos.take_profit

\* lines 298-299
exit_triggered(current_price, pos) ==
    \/ current_price <= pos.entry_price - pos.stop_loss
    \/ current_price >= pos.entry_price + pos.take_profit

\* line 300: the side of the closing order
closing_side(pos) == IF pos.side = "buy" THEN "sell" ELSE "buy"

\* The slot after a close, had line 302 been left out.
closed_kept(pos) == pos

\* line 302: self.position = None
closed(pos) == None

\* lines 296-303
monitor ==
    /\ pc = "monitor"
    /\ IF Truthy(position) /\ exit_triggered(df.close, position)
       THEN IF ~Has(position, "side") \/ ~Has(position, "amount")
            THEN /\ pc' = "crashed" /\ exc' = "KeyError"      \* line 300
                 /\ UNCHANGED <<position, last_close_time, sent, calls>>
            ELSE \E oo \in Outcomes, res \in OrderResults :
                   LET o == place_order(closing_side(position), position.amount, oo, res) IN
                   /\ sent' = Append(sent, [purpose |-> "close"] @@ o.request)
                   /\ calls' = Append(calls, Call("order", oo))
                   /\ IF o.raised # "none"
                      THEN /\ pc' = "crashed" /\ exc' = o.raised
                           /\ UNCHANGED <<position, last_close_time>>
                      ELSE /\ pc' = "sleep" /\ exc' = exc
                           /\ position' = closed(position)     \* line 302
                           /\ last_close_time' = now          \* line 303
       ELSE /\ pc' = "sleep"
            /\ UNCHANGED <<exc, position, last_close_time, sent, calls>>
    /\ UNCHANGED <<clock, now, df, balance, opening, risk_perc, amount, leverage>>

\* lines 253, 264, 272, 306: time.sleep(self.frequency)
sleep ==
    /\ pc = "sleep"
    /\ clock + frequency <= MaxTime
    /\ clock' = clock + frequency
    /\ pc' = "top"
    /\ UNCHANGED <<exc, now, last_close_time, position, df, balance, sent, opening,
                   risk_perc, amount, calls, leverage>>

Next ==
    \/ set_leverage
    \/ cooldown_check
    \/ fetch
    \/ volatility_gate
    \/ entry
    \/ monitor
    \/ sleep

Spec == Init /\ [][Next]_vars

TypeOK ==
    /\ pc \in {"init", "aborted", "top", "fetch", "gate", "entry", "monitor", "sleep", "crashed"}
    /\ clock \in 0..MaxTime
    /\ Len(sent) <= 2
    /\ Len(calls) <= 4
    /\ risk_perc \in RiskFractions

-----------------------------------------------------------------------------
(* Properties *)

Orders(purpose) == {i \in DOMAIN sent : sent[i].purpose = purpose}

\* The step hands an order of this purpose to the exchange.
Submits(purpose) ==
    /\ Len(sent') = Len(sent) + 1
    /\ sent'[Len(sent')].purpose = purpose

\* The step hands an order of this purpose to the exchange and it is acknowledged.
Acknowledged(purpose) ==
    /\ Submits(purpose)
    /\ sent'[Len(sent')].outcome = "ok"

\* The exit thresholds of lines 298-299, on the stored Position.
Breached(price, pos) ==
    \/ price <= pos.entry_price - pos.stop_loss
    \/ price >= pos.entry_price + pos.take_profit

\* C1: at most one open Position.  While a Position is stored, no step
\* submits an entry order, and no step replaces entry_price by another value:
\* the slot changes only by being set back to none.
C1_SinglePosition ==
    [][Truthy(position) =>
          /\ ~Submits("entry")
          /\ (Truthy(position') => position'.entry_price = position.entry_price)]_vars

\* C1 witness: a cycle passed its entry step with a Position open from an
\* earlier cycle, a bias and a met entry condition, at another close price,
\* and no order was submitted.
C1_Witness ==
    /\ pc = "monitor"
    /\ Truthy(position)
    /\ sent = <<>>
    /\ df.EMA200 # df.EMA90
    /\ check_entry_conditions(df, determine_position(df))
    /\ df.close # position.entry_price

\* C2: a closing order that was not acknowledged (transport failure, non-2xx
\* status, retCode # 0) leaves the Position stored; the Position is set to
\* none only after an acknowledged closing order.
C2_FailedCloseKeepsPosition ==
    \A i \in Orders("close") : sent[i].outcome # "ok" => Truthy(position)

\* C3: last_close_time changes only in a step whose closing order was
\* acknowledged by the exchange.
C3_CooldownRestartsOnAcknowledgedClose ==
    [][last_close_time' # last_close_time => Acknowledged("close")]_vars

\* C4: an entry order that fails for any reason (transport failure, non-2xx
\* status, retCode # 0) ends the cycle normally, with the position still none;
\* the loop is alive to make the next attempt in a later cycle.
C4_FailedEntryEndsCycle ==
    \A i \in Orders("entry") :
        sent[i].outcome # "ok" => pc \in {"monitor", "sleep", "top"} /\ ~Truthy(position)

\* C5: after startup the run loop never terminates: no exception escapes a
\* cycle, whatever an exchange call answers.
C5_LoopNeverTerminates == pc # "crashed"

\* C6: every step that starts the next cycle is the step that sleeps the
\* idle interval.
C6_SleepBetweenCycles ==
    [][(pc \notin {"init", "top"} /\ pc' = "top") => (pc = "sleep" /\ clock' = clock + frequency)]_vars

\* C7: a cycle that fetched bars with a Position open does not end with the
\* Position still open and an exit threshold breached by the current close:
\* the monitoring ran and submitted the closing order.
C7_OpenPositionMonitoredEveryCycle ==
    (pc = "sleep" /\ Truthy(df) /\ Truthy(position)) => ~Breached(df.close, position)

\* C8: a cycle whose start time is inside the cooldown window
\* (now - last_close_time < duration) is skipped before any entry is
\* evaluated, and no entry order is submitted in it; a cycle that starts at or
\* after last_close_time + duration goes on to fetch and evaluate.
C8_CooldownGatesEntry ==
    [][/\ (pc = "top" /\ pc' # "top") =>
             IF clock - last_close_time < pause
             THEN pc' = "sleep" /\ sent' = <<>>
             ELSE pc' = "fetch"
       /\ (pc' \in {"fetch", "gate", "entry"} => now' - last_close_time' >= pause)
       /\ (Submits("entry") => now - last_close_time >= pause)]_vars

\* C8 witness: after a close restarted the window and the cycles inside it
\* were skipped, the cycle that starts exactly at last_close_time + duration
\* evaluates an entry.
C8_Witness ==
    /\ pc = "entry"
    /\ last_close_time >= 0
    /\ now - last_close_time = pause

\* C9: when an exit is triggered a closing order is submitted, with the side
\* opposite to the side of the order that opened the Position and with that
\* order's quantity.
C9_ClosingOrderMirrorsOpening ==
    /\ \A i \in Orders("close") :
          /\ sent[i].side # opening.side
          /\ sent[i].qty = opening.qty
    /\ (pc = "crashed" /\ Truthy(df) /\ Truthy(position) /\ Breached(df.close, position))
          => Orders("close") # {}

\* C10: an entry order is submitted in a cycle only if the bias is not None,
\* the volatility gate passes (|ema_slow - ema_fast| >= 0.1 * volatility
\* range), the entry condition of the bias holds and the fetched balance is > 0.
C10_EntryOnlyWhenAllFourHold ==
    Orders("entry") # {} =>
        /\ df.EMA200 # df.EMA90
        /\ abs(df.EMA200 - df.EMA90) * 10 >= df.ATR
        /\ IF df.EMA200 < df.EMA90
           THEN df.RSI12 < 40 \/ df.close < df.BB_lower \/ df.MACD < df.Signal
           ELSE df.RSI12 > 60 \/ df.close > df.BB_upper \/ df.MACD > df.Signal
        /\ balance.fetched /\ balance.value > 0

\* C11: the order size computed by the sizing step is never negative and
\* never below the minimum order size; it is |balance * risk_fraction / price|
\* when that is at least the minimum, and the minimum otherwise.
C11_SizeClampedToMinimum ==
    amount # None =>
        LET n == abs(balance.value * risk_perc * 10)     \* |balance * risk| in thousandths
            p == df.close
        IN /\ amount[2] > 0
           /\ amount[1] >= 0
           /\ amount[1] >= MIN_ORDER_SIZE * amount[2]
           /\ IF n >= MIN_ORDER_SIZE * p
              THEN amount[1] * p = n * amount[2]
              ELSE amount[1] = MIN_ORDER_SIZE * amount[2]

\* C11 witness: a sizing whose raw size is below the minimum was raised to it.
C11_Witness ==
    /\ amount # None
    /\ abs(balance.value * risk_perc * 10) < MIN_ORDER_SIZE * df.close
    /\ amount = <<MIN_ORDER_SIZE, 1>>

\* C12: while a Position stays stored, its stop_loss, take_profit and
\* entry_price keep the values assigned when it was opened.
C12_ExitLevelsFixedAtOpen ==
    [][(Truthy(position) /\ Truthy(position')) =>
          /\ position'.stop_loss = position.stop_loss
          /\ position'.take_profit = position.take_profit
          /\ position'.entry_price = position.entry_price]_vars

\* C12 witness: a later cycle ran to its end with the Position still open,
\* on bars with another volatility range and another close.
C12_Witness ==
    /\ pc = "sleep"
    /\ Truthy(position)
    /\ Truthy(df)
    /\ sent = <<>>
    /\ ~low_volatility(df)
    /\ calculate_volatility_based_risk(df)[1] # position.stop_loss
    /\ df.close # position.entry_price

\* C13: the run loop is entered only after a leverage request that was
\* acknowledged with retCode = 0; any other answer aborts startup.
C13_LoopOnlyAfterLeverageSet ==
    pc \notin {"init", "aborted"} => leverage = "ok"

\* C14: a send_request call that meets a network failure, a non-2xx status
\* or an undecodable body returns the failed value None to its caller and
\* raises nothing.
C14_FailuresReturnedNotRaised ==
    /\ \A i \in DOMAIN calls :
          calls[i].outcome \in {"network", "http", "decode"} =>
              calls[i].raised = "none" /\ calls[i].value = None
    /\ exc \notin {"ConnectionError", "JSONDecodeError"}

\* C14 witness: the balance request got an undecodable body and its caller
\* went on with the failed result.
C14_Witness ==
    /\ pc = "sleep"
    /\ \E i \in DOMAIN calls :
          calls[i].endpoint = "wallet-balance" /\ calls[i].outcome = "decode"

\* C15: a bar fetch answered with a non-zero retCode ends the cycle there:
\* no snapshot, no bias, no balance request, no order, position and
\* last_close_time unchanged, no exception.
C15_FetchErrorSkipsCycle ==
    [][(/\ pc = "fetch"
        /\ Len(calls') = Len(calls) + 1
        /\ calls'[Len(calls')].outcome = "app") =>
          /\ pc' = "top"
          /\ exc' = "none"
          /\ df' = None
          /\ balance' = NoBalance
          /\ sent' = <<>>
          /\ Len(calls') = 1
          /\ position' = position
          /\ last_close_time' = last_close_time]_vars

\* C15 witness: with a Position open, the bar fetch was answered with
\* retCode 10001 and the loop is back at its top.
C15_Witness ==
    /\ pc = "top"
    /\ Truthy(position)
    /\ Len(calls) = 1
    /\ calls[1].endpoint = "kline"
    /\ calls[1].outcome = "app"

\* C16: every request produces exactly one log record, and the parameters in
\* it contain neither the account secret nor the signature.
C16_OneSanitizedLogRecordPerRequest ==
    \A i \in DOMAIN calls :
        /\ Len(calls[i].log) = 1
        /\ "sign" \notin calls[i].log[1]
        /\ "api_secret" \notin calls[i].log[1]

\* C17: the entry order's side matches the bias of the cycle: Buy for a Long
\* bias (slow EMA below fast EMA), Sell for a Short bias.
C17_EntrySideMatchesBias ==
    \A i \in Orders("entry") :
        sent[i].side = IF df.EMA200 < df.EMA90 THEN "Buy" ELSE "Sell"

\* C18: the quantity of every entry order equals the order size computed by
\* the sizing step of that cycle.
C18_EntryQuantityIsComputedSize ==
    \A i \in Orders("entry") :
        amount # None /\ sent[i].qty * amount[2] = amount[1]

\* C19: whenever the cooldown check skips a cycle, the position slot is none.
C19_CooldownSkipOnlyWhenFlat ==
    [][(pc = "top" /\ pc' = "sleep") => ~Truthy(position')]_vars

\* C19 witness: a cycle after a close was skipped by the cooldown check.
C19_Witness ==
    /\ pc = "sleep"
    /\ ~Truthy(df)
    /\ last_close_time >= 0
    /\ now > last_close_time
    /\ now - last_close_time < pause

\* C20, as claimed: for every volatility range at open time, zero included,
\* the monitoring step that follows a successful entry in the same cycle
\* finds no exit and submits no closing order.
C20_NeverClosedInOpeningCycle ==
    [][(pc = "monitor" /\ Orders("entry") # {} /\ Truthy(position)) =>
          /\ ~Submits("close")
          /\ pc' = "sleep"
          /\ position' = position]_vars

\* C20, amended: for every positive volatility range at open time, the
\* monitoring step that follows a successful entry in the same cycle finds no
\* exit and submits no closing order.
C20_NotClosedInOpeningCycleWhenRangePositive ==
    [][(pc = "monitor" /\ Orders("entry") # {} /\ Truthy(position) /\ df.ATR > 0) =>
          /\ ~Submits("close")
          /\ pc' = "sleep"
          /\ position' = position]_vars

\* C20 witness: the cycle that opened a Position on a positive volatility
\* range ended with the Position open and no closing order.
C20_Witness ==
    /\ pc = "sleep"
    /\ Orders("entry") # {}
    /\ Truthy(position)
    /\ df.ATR > 0
    /\ Orders("close") = {}

====
